---- MODULE Spec2Model ----
(***************************************************************************)
(* Park-Pulse: the wait-time snapshot store (getWaitTimes of the data      *)
(* service) under sequential and overlapping invocations, with the faults  *)
(* of its two collaborators: the upstream live-data API and the JSON file  *)
(* that holds the history.  With it: the HTTP handler that exposes it       *)
(* (SpecHttp), the rank and sort functions sortRides, getHighOfDay and       *)
(* averageWaitTime as pure functions of their arguments (SpecRank), and the  *)
(* Dashboard's fetchData in the browser (SpecClient).  Further: the cycles  *)
(* and refreshes under fairness (SpecLive), the Dashboard's sort selection *)
(* and its list of rides (SpecDashboard), and the useFavorites hook with   *)
(* the local storage (SpecFavorites).                                      *)
(*                                                                         *)
(* Time is in milliseconds, as Date.getTime() returns it.  The clock of    *)
(* the model starts at BaseTime, an instant that stands for the present    *)
(* wall-clock time: it is later than 60 s after the epoch (as every real   *)
(* clock is) and late enough for a full history to lie before it.          *)
(***************************************************************************)
EXTENDS Integers, Sequences, FiniteSets, TLC

\* ------------------------------------------------------------------ bounds
\* Number of getWaitTimes invocations that can be in flight together.
NumCalls == 2
\* Number of times the clock advances.
MaxTicks == 1
\* Length of the longest list of rides given to the rank and sort functions.
MaxRides == 3
\* Largest average wait given to busynessLevel.
MaxAverage == 60
\* Number of calls of the client's fetchData that can be under way together.
NumRefreshes == 2

\* --------------------------------------------------------------- constants
\* history.length > 2000 / history.slice(-2000)
HISTORY_CAP == 2000
\* 60 * 1000, "Only save every minute"
DEDUP_WINDOW == 60 * 1000
MS_PER_DAY == 24 * 60 * 60 * 1000

\* The two configured parks, in the order of the Promise.all of getWaitTimes.
PARKS == <<"DISNEYLAND_PARK", "DISNEY_CALIFORNIA_ADVENTURE">>
ParkIdx == 1..Len(PARKS)

Calls == 1..NumCalls

BaseTime == (HISTORY_CAP + 2) * (DEDUP_WINDOW + 1)
\* The clock advances by exactly the dedup window or by one millisecond more.
TickSteps == {DEDUP_WINDOW, DEDUP_WINDOW + 1}
Horizon == BaseTime + MaxTicks * (DEDUP_WINDOW + 1)

\* ------------------------------------------------------------ conversions
\* Date.prototype.toISOString: "YYYY-MM-DDTHH:mm:ss.sssZ", kept as its date
\* part (days since the epoch) and its time-of-day part (milliseconds).
ToISOString(t) == [date |-> t \div MS_PER_DAY, time |-> t % MS_PER_DAY]

\* new Date(s).getTime(): the instant of an ISO string.
GetTime(s) == s.date * MS_PER_DAY + s.time

\* ------------------------------------------------------------------ values
\* The body of a park's response, response.json(): a ParkLiveData.
ParkLiveData(parkId) == [id |-> parkId, liveData |-> <<>>]

NoData == [id |-> "", liveData |-> <<>>]

\* A fetchParkData promise: not started, pending, fulfilled with the park's
\* data, or rejected.
NoFetch == [status |-> "none", data |-> NoData]
PendingFetch == [status |-> "pending", data |-> NoData]
FulfilledFetch(data) == [status |-> "ok", data |-> data]
RejectedFetch == [status |-> "failed", data |-> NoData]

\* const currentSnapshot = { timestamp, parks: [disneylandData, dcaData] }
MakeSnapshot(timestamp, disneylandData, dcaData) ==
    [timestamp |-> timestamp, parks |-> <<disneylandData, dcaData>>]

NoSnapshot == [timestamp |-> ToISOString(0), parks |-> <<>>]

\* The content of wait_times.json:
\*   "absent"  no such file (readFile rejects with ENOENT)
\*   "text"    bytes that JSON.parse rejects (an empty or partly written file)
\*   "array"   a JSON array of snapshots, val
\*   "object"  JSON that is not an array (an object)
FileAbsent == [kind |-> "absent", val |-> <<>>]
FileText == [kind |-> "text", val |-> <<>>]
FileObject == [kind |-> "object", val |-> <<>>]
FileArray(h) == [kind |-> "array", val |-> h]

\* The value of the local variable `history`: an array, or the non-array
\* value that JSON.parse returned.
HistArray(h) == [kind |-> "array", val |-> h]
HistObject == [kind |-> "object", val |-> <<>>]

\* ------------------------------------------------------- getWaitTimes, pure
\* Step 2, "Read history": history = [] unless readFile and JSON.parse both
\* succeed; a rejected read (ENOENT, EACCES, ...) and a SyntaxError are caught.
\* ensureDirectoryExistence swallows its own failure and changes no state of
\* the model.
ReadHistory(file, readFails) ==
    IF readFails \/ file.kind = "absent" \/ file.kind = "text"
    THEN HistArray(<<>>)
    ELSE IF file.kind = "array" THEN HistArray(file.val) ELSE HistObject

\* lastSnapshot ? new Date(lastSnapshot.timestamp).getTime() : 0
LastTime(h) == IF Len(h) = 0 THEN 0 ELSE GetTime(h[Len(h)].timestamp)

\* Mutants of ShouldSave: the window taken as inclusive; no window at all.
ShouldSaveInclusive(h, ts) == GetTime(ts) - LastTime(h) >= DEDUP_WINDOW
ShouldSaveAlways(h, ts) == TRUE

\* currentTime - lastTime > 60 * 1000
ShouldSave(h, ts) == GetTime(ts) - LastTime(h) > DEDUP_WINDOW

\* Mutant of LimitHistory: slice(0, 2000), which keeps the oldest entries.
LimitHistoryKeepsOldest(h) ==
    IF Len(h) > HISTORY_CAP THEN SubSeq(h, 1, HISTORY_CAP) ELSE h

\* if (history.length > 2000) history = history.slice(-2000)
LimitHistory(h) ==
    IF Len(h) > HISTORY_CAP THEN SubSeq(h, Len(h) - HISTORY_CAP + 1, Len(h)) ELSE h

\* history.push(currentSnapshot), then the limit.
PushAndLimit(h, snapshot) == LimitHistory(Append(h, snapshot))

\* Step 3, "Append and Save", up to the call of writeFile: the value of
\* `history` afterwards and whether writeFile is called.  On a non-array
\* `history` lastSnapshot is undefined, the test passes and history.push
\* throws a TypeError that the catch swallows: nothing is written.
AppendStep(hist, snapshot, ts) ==
    IF hist.kind = "array" /\ ShouldSave(hist.val, ts)
    THEN [history |-> HistArray(PushAndLimit(hist.val, snapshot)), write |-> TRUE]
    ELSE [history |-> hist, write |-> FALSE]

\* fs.writeFile of `data` by a writer that has truncated the file: the bytes
\* go to offset 0.  Content that another writer put there since and that is
\* longer than `data` keeps its tail, which leaves no JSON document.
WrittenFile(file, data) ==
    IF file.kind = "array" /\ Len(file.val) > Len(data) THEN FileText ELSE FileArray(data)

\* ------------------------------------------------------------------- state
\* now              the wall clock
\* store            the content of wait_times.json
\* pc               where each invocation of getWaitTimes stands:
\*                  idle, fetching, reading, writing (writeFile called),
\*                  flushing (file opened), returned, threw
\* timestamp        its `timestamp`
\* fetches          its two fetchParkData promises
\* currentSnapshot  its `currentSnapshot`
\* history          its `history`
VARIABLES now, store, pc, timestamp, fetches, currentSnapshot, history

\* response         what GET /api/wait-times made of each invocation
VARIABLE response

\* The rank and sort functions, as pure functions of their arguments:
\* rides            the argument `rides`
\* call             the function applied to it, with its other arguments
\* result           the value it returned
VARIABLES rides, call, result

rankVars == <<rides, call, result>>

\* The Dashboard component in the browser:
\* data             its state `data`
\* loading          its state `loading`
\* refreshPc        where each call of fetchData stands: idle, fetching
\*                  (request sent), answered (the response is on its way)
\* reply            the response to its request
\* dataBefore       the `data` on display when it was called
\* lastRefresh      how the call of fetchData that ended last ended
VARIABLES data, loading, refreshPc, reply, dataBefore, lastRefresh

clientVars == <<data, loading, refreshPc, reply, dataBefore, lastRefresh>>

\* The Dashboard's sort selection and the useFavorites hook:
\* sortState        the states `sortField` and `sortDirection`, one record
\* favorites        the state `favorites` of the hook
\* isLoaded         its state `isLoaded`
\* effects          the effects of the hook that are still to run: those of
\*                  the first render ("mount"), those of a later render
\*                  ("render"), or "none"
\* localStorage     the item "disney-parks-favorites" of the local storage
VARIABLES sortState, favorites, isLoaded, effects, localStorage

uiVars == <<sortState, favorites, isLoaded, effects, localStorage>>

vars == <<now, store, pc, timestamp, fetches, currentSnapshot, history, response,
          rankVars, clientVars, uiVars>>

\* ------------------------------------------------------ rank and sort, pure
\* An optional property that is absent, and one that is there: ride.queue,
\* queue.STANDBY, ride.forecast.
NoStandby == [defined |-> FALSE, waitTime |-> 0]
Standby(n) == [defined |-> TRUE, waitTime |-> n]
NoQueue == [defined |-> FALSE, STANDBY |-> NoStandby]
Queue(standby) == [defined |-> TRUE, STANDBY |-> standby]
NoForecast == [defined |-> FALSE, points |-> <<>>]
Forecast(points) == [defined |-> TRUE, points |-> points]

\* Forecast.time as the upstream sends it: an ISO string, or malformed: the
\* property is missing, or it is a string that is no date.
IsoTime(t) == [kind |-> "iso", val |-> ToISOString(t)]
MissingTime == [kind |-> "undefined", val |-> ToISOString(0)]
GarbageTime == [kind |-> "garbage", val |-> ToISOString(0)]

ForecastPoint(time, waitTime) == [time |-> time, waitTime |-> waitTime]

\* The fields of a Ride that the rank and sort functions read.
Ride(id, name, status, queue, forecast) ==
    [id |-> id, name |-> name, status |-> status, queue |-> queue, forecast |-> forecast]

\* new Date(x): the instant of an ISO string; an invalid Date for undefined
\* and for a string that does not parse.
NewDate(x) ==
    IF x.kind = "iso" THEN [valid |-> TRUE, ms |-> GetTime(x.val)]
    ELSE [valid |-> FALSE, ms |-> 0]

\* The offset of the local time zone of the runtime from UTC (Pacific time,
\* where the parks are).
LOCAL_OFFSET == 0 - 8 * 60 * 60 * 1000

\* Mutant of ToDateString: the date taken with toISOString, which gives the
\* UTC date and throws a RangeError on an invalid Date.
ToISODate(d) ==
    IF d.valid THEN [kind |-> "date", day |-> d.ms \div MS_PER_DAY]
    ELSE [kind |-> "RangeError", day |-> 0]

\* Date.prototype.toDateString: the calendar date in local time, "Invalid
\* Date" for an invalid Date.
ToDateString(d) ==
    IF d.valid THEN [kind |-> "date", day |-> (d.ms + LOCAL_OFFSET) \div MS_PER_DAY]
    ELSE [kind |-> "Invalid Date", day |-> 0]

\* The outcome of a call: the value returned, or an exception.
Returned(v) == [threw |-> FALSE, val |-> v]
Threw == [threw |-> TRUE, val |-> 0]

Max(S) == CHOOSE m \in S : \A n \in S : n <= m

\* Mutant of TodayForecasts: no filter, every point counts.
AllForecasts(ride) == {i \in 1..Len(ride.forecast.points) : TRUE}

\* ride.forecast.filter(f => new Date(f.time).toDateString() === today), as
\* the indices of the points kept; today = new Date().toDateString().
TodayForecasts(ride) ==
    {i \in 1..Len(ride.forecast.points) :
        ToDateString(NewDate(ride.forecast.points[i].time))
            = ToDateString([valid |-> TRUE, ms |-> now])}

\* getHighOfDay(ride).  An exception in the filter callback leaves the
\* function.
getHighOfDay(ride) ==
    IF ~ride.forecast.defined THEN Returned(0)
    ELSE IF \E i \in 1..Len(ride.forecast.points) :
                ToDateString(NewDate(ride.forecast.points[i].time)).kind = "RangeError"
    THEN Threw
    ELSE IF TodayForecasts(ride) = {} THEN Returned(0)
    ELSE Returned(Max({ride.forecast.points[i].waitTime : i \in TodayForecasts(ride)}))

\* The UTF-16 code units of the strings that occur.
CodeUnits(s) ==
    CASE s = "" -> <<>>
      [] s = "Alice" -> <<65, 108, 105, 99, 101>>
      [] s = "Bob" -> <<66, 111, 98>>
      [] s = "Charlie" -> <<67, 104, 97, 114, 108, 105, 101>>
      [] s = "Dave" -> <<68, 97, 118, 101>>
      [] s = "Erin" -> <<69, 114, 105, 110>>
      [] s = "Frank" -> <<70, 114, 97, 110, 107>>
      [] s = "OPERATING" -> <<79, 80, 69, 82, 65, 84, 73, 78, 71>>
      [] s = "CLOSED" -> <<67, 76, 79, 83, 69, 68>>
      [] s = "DOWN" -> <<68, 79, 87, 78>>
      [] s = "Fantasyland" -> <<70, 97, 110, 116, 97, 115, 121, 108, 97, 110, 100>>
      [] s = "Tomorrowland" -> <<84, 111, 109, 111, 114, 114, 111, 119, 108, 97, 110, 100>>
      [] s = "E" -> <<69>>
      [] s = "C" -> <<67>>

\* a < b for two strings: the first code unit that differs decides, and a
\* proper prefix is less.
StringLess(a, b) ==
    LET u == CodeUnits(a)
        v == CodeUnits(b)
    IN \E k \in 0..Len(v) - 1 :
          /\ k <= Len(u)
          /\ \A j \in 1..k : u[j] = v[j]
          /\ (k = Len(u) \/ u[k + 1] < v[k + 1])

\* valA and valB: a number or a string.
Num(n) == [type |-> "number", num |-> n, str |-> ""]
Str(s) == [type |-> "string", num |-> 0, str |-> s]

\* valA < valB
Less(a, b) == IF a.type = "number" THEN a.num < b.num ELSE StringLess(a.str, b.str)

\* getLand and getTicketClass of lib/parks: the static classifier of ride
\* names.
getLand(name) == IF name = "Bob" THEN "Tomorrowland" ELSE "Fantasyland"
getTicketClass(name) ==
    CASE name = "Alice" -> "E"
      [] name = "Dave" -> "D"
      [] name = "Bob" -> "C"
      [] name = "Erin" -> "B"
      [] name = "Frank" -> "A"
      [] OTHER -> ""

\* Mutant of score: the map the other way round, 'A' the highest.
scoreAHighest(r) ==
    LET t == getTicketClass(r.name)
    IN CASE t = "E" -> 1 [] t = "D" -> 2 [] t = "C" -> 3 [] t = "B" -> 4 [] t = "A" -> 5
         [] OTHER -> 0

\* const map = { 'E': 5, 'D': 4, 'C': 3, 'B': 2, 'A': 1 }; map[t] || 0
score(r) ==
    LET t == getTicketClass(r.name)
    IN CASE t = "E" -> 5 [] t = "D" -> 4 [] t = "C" -> 3 [] t = "B" -> 2 [] t = "A" -> 1
         [] OTHER -> 0

\* Mutant of StandbyWaitOrZero: a missing wait counts as -1.
StandbyWaitOrMinusOne(ride) ==
    IF ride.queue.defined /\ ride.queue.STANDBY.defined
    THEN ride.queue.STANDBY.waitTime ELSE -1

\* ride.queue?.STANDBY?.waitTime ?? 0
StandbyWaitOrZero(ride) ==
    IF ride.queue.defined /\ ride.queue.STANDBY.defined
    THEN ride.queue.STANDBY.waitTime ELSE 0

\* Mutant of WaitTimeKey: no -1 for a ride that is not operating.
WaitTimeKeyAnyStatus(ride) == StandbyWaitOrZero(ride)

\* a.status === 'OPERATING' ? (a.queue?.STANDBY?.waitTime ?? 0) : -1
WaitTimeKey(ride) == IF ride.status = "OPERATING" THEN StandbyWaitOrZero(ride) ELSE -1

\* The switch of the comparator: valA for ride a under sortField.  No case
\* matches 'favorite', which leaves the initial ''.
SortKey(ride, sortField) ==
    CASE sortField = "name" -> Returned(Str(ride.name))
      [] sortField = "waitTime" -> Returned(Num(WaitTimeKey(ride)))
      [] sortField = "land" -> Returned(Str(getLand(ride.name)))
      [] sortField = "status" -> Returned(Str(ride.status))
      [] sortField = "ticket" -> Returned(Num(score(ride)))
      [] sortField = "peak" ->
            IF getHighOfDay(ride).threw THEN [threw |-> TRUE, val |-> Num(0)]
            ELSE Returned(Num(getHighOfDay(ride).val))
      [] OTHER -> Returned(Str(""))

\* Mutants of compare: equal values taken as A before B (<= for <); the
\* direction ignored.
compareTiesApart(a, b, sortField, sortDirection) ==
    LET valA == SortKey(a, sortField).val
        valB == SortKey(b, sortField).val
    IN IF Less(valB, valA) THEN (IF sortDirection = "asc" THEN 1 ELSE -1)
       ELSE (IF sortDirection = "asc" THEN -1 ELSE 1)
compareAscending(a, b, sortField, sortDirection) ==
    LET valA == SortKey(a, sortField).val
        valB == SortKey(b, sortField).val
    IN IF Less(valA, valB) THEN -1 ELSE IF Less(valB, valA) THEN 1 ELSE 0

\* The end of the comparator:
\*   if (valA < valB) return sortDirection === 'asc' ? -1 : 1;
\*   if (valA > valB) return sortDirection === 'asc' ? 1 : -1;
\*   return 0;
compare(a, b, sortField, sortDirection) ==
    LET valA == SortKey(a, sortField).val
        valB == SortKey(b, sortField).val
    IN IF Less(valA, valB) THEN (IF sortDirection = "asc" THEN -1 ELSE 1)
       ELSE IF Less(valB, valA) THEN (IF sortDirection = "asc" THEN 1 ELSE -1)
       ELSE 0

\* Array.prototype.sort with this comparator: a stable sort (ECMAScript 2019),
\* done as V8 does it for a short array, by insertion from the left.  Where x
\* goes into the sorted prefix: after sorted[p], p the last place whose
\* element x is not to come before.
RECURSIVE InsertionPoint(_, _, _, _, _)
InsertionPoint(sorted, x, p, sortField, sortDirection) ==
    IF p >= 1 /\ compare(x, sorted[p], sortField, sortDirection) < 0
    THEN InsertionPoint(sorted, x, p - 1, sortField, sortDirection)
    ELSE p

\* The first n elements of arr, sorted.
RECURSIVE ArraySort(_, _, _, _)
ArraySort(arr, n, sortField, sortDirection) ==
    IF n = 0 THEN <<>>
    ELSE LET sorted == ArraySort(arr, n - 1, sortField, sortDirection)
             p == InsertionPoint(sorted, arr[n], n - 1, sortField, sortDirection)
         IN SubSeq(sorted, 1, p) \o <<arr[n]>> \o SubSeq(sorted, p + 1, n - 1)

\* sortRides(rides, sortField, sortDirection): [...rides].sort(comparator).
\* The comparator runs when there are two rides or more; an exception in it
\* leaves sortRides.
sortRides(rs, sortField, sortDirection) ==
    IF Len(rs) >= 2 /\ \E i \in 1..Len(rs) : SortKey(rs[i], sortField).threw
    THEN Threw
    ELSE Returned(ArraySort(rs, Len(rs), sortField, sortDirection))

\* Mutant of ArgumentAfterSort: rides.sort(comparator), without the copy,
\* sorts the caller's array.
ArgumentSortedInPlace(rs, sortField, sortDirection) ==
    IF Len(rs) >= 2 /\ \E i \in 1..Len(rs) : SortKey(rs[i], sortField).threw
    THEN rs
    ELSE ArraySort(rs, Len(rs), sortField, sortDirection)

\* The caller's array after sortRides: sort works in place, on the copy
\* [...rides], and the array given is left as it was.
ArgumentAfterSort(rs, sortField, sortDirection) == rs

\* Math.round(n / d) for n >= 0 and d > 0: halves go up.
MathRound(n, d) == (2 * n + d) \div (2 * d)

\* operatingRides.reduce((acc, ride) => acc + (ride.queue?.STANDBY?.waitTime || 0), 0)
RECURSIVE TotalWait(_, _)
TotalWait(rs, n) ==
    IF n = 0 THEN 0 ELSE TotalWait(rs, n - 1) + StandbyWaitOrZero(rs[n])

\* rides.filter((r) => r.status === "OPERATING")
OperatingRides(rs) == SelectSeq(rs, LAMBDA r : r.status = "OPERATING")

\* Dashboard.averageWaitTime
averageWaitTime(rs) ==
    IF Len(rs) = 0 THEN 0
    ELSE IF Len(OperatingRides(rs)) = 0 THEN 0
    ELSE MathRound(TotalWait(OperatingRides(rs), Len(OperatingRides(rs))),
                   Len(OperatingRides(rs)))

\* ------------------------------------------------- getWaitTimes, the calls
\* Mutant of busynessLevel: the thresholds belong to the lower tier.
busynessLevelInclusive(avg) ==
    IF avg <= 15 THEN [label |-> "Quiet", color |-> "text-green-500"]
    ELSE IF avg <= 30 THEN [label |-> "Moderate", color |-> "text-yellow-500"]
    ELSE IF avg <= 50 THEN [label |-> "Busy", color |-> "text-orange-500"]
    ELSE [label |-> "Very Busy", color |-> "text-red-600"]

\* The Dashboard's busynessLevel, of its averageWaitTime.
busynessLevel(avg) ==
    IF avg < 15 THEN [label |-> "Quiet", color |-> "text-green-500"]
    ELSE IF avg < 30 THEN [label |-> "Moderate", color |-> "text-yellow-500"]
    ELSE IF avg < 50 THEN [label |-> "Busy", color |-> "text-orange-500"]
    ELSE [label |-> "Very Busy", color |-> "text-red-600"]

NoFetches == [i \in ParkIdx |-> NoFetch]

\* A history of n snapshots taken DEDUP_WINDOW + 1 ms apart, the last one at
\* BaseTime: what n cycles, one every 60.001 s, leave in the file.
Prefill(n) ==
    [i \in 1..n |->
        MakeSnapshot(ToISOString(BaseTime - (n - i) * (DEDUP_WINDOW + 1)),
                     ParkLiveData(PARKS[1]), ParkLiveData(PARKS[2]))]

\* The handler has not answered.
NoResponse ==
    [threw |-> FALSE, status |-> 0, current |-> NoSnapshot, history |-> HistArray(<<>>),
     error |-> ""]

\* No function of the rank and sort engine has been called.
NoCall == [op |-> "none", sortField |-> "", sortDirection |-> "", ride |-> 0,
           averageWaitTime |-> 0]

RankIdle ==
    /\ rides = <<>>
    /\ call = NoCall
    /\ result = Returned(0)

\* The Dashboard before its first fetchData: useState(null), useState(true).
Refreshes == 1..NumRefreshes
NullData == [isNull |-> TRUE, current |-> NoSnapshot, history |-> HistArray(<<>>)]
NoReply == [kind |-> "none", current |-> NoSnapshot, history |-> HistArray(<<>>)]

\* The item of the local storage: not there (getItem gives null), or a
\* string, held as the sequence of its JSON tokens.
NoItem == [kind |-> "absent", val |-> <<>>]
Item(text) == [kind |-> "text", val |-> text]

\* useState<SortField>('waitTime'), useState<SortDirection>('desc')
SortMount ==
    sortState = [sortField |-> "waitTime", sortDirection |-> "desc"]

\* useFavorites at its first render: useState([]), useState(false)
FavoritesMount ==
    /\ favorites = <<>>
    /\ isLoaded = FALSE
    /\ effects = "mount"

FetchMount ==
    /\ data = NullData
    /\ loading = TRUE
    /\ refreshPc = [r \in Refreshes |-> "idle"]
    /\ reply = [r \in Refreshes |-> NoReply]
    /\ dataBefore = [r \in Refreshes |-> NullData]
    /\ lastRefresh = "none"

ClientMount ==
    /\ FetchMount
    /\ SortMount
    /\ FavoritesMount
    /\ localStorage = NoItem

InitCalls ==
    /\ now = BaseTime
    /\ pc = [c \in Calls |-> "idle"]
    /\ timestamp = [c \in Calls |-> ToISOString(0)]
    /\ fetches = [c \in Calls |-> NoFetches]
    /\ currentSnapshot = [c \in Calls |-> NoSnapshot]
    /\ history = [c \in Calls |-> HistArray(<<>>)]
    /\ response = [c \in Calls |-> NoResponse]

\* Cold start: no file yet.
Init == InitCalls /\ store = FileAbsent /\ RankIdle /\ ClientMount

\* ----------------------------------------------------------------- actions
\* The clock advances.
Tick ==
    /\ \E d \in TickSteps : now + d <= Horizon /\ now' = now + d
    /\ UNCHANGED <<store, pc, timestamp, fetches, currentSnapshot, history, response, rankVars, clientVars, uiVars>>

\* getWaitTimes is called: it takes the timestamp and starts both fetches.
Start(c) ==
    /\ pc[c] = "idle"
    /\ timestamp' = [timestamp EXCEPT ![c] = ToISOString(now)]
    /\ fetches' = [fetches EXCEPT ![c] = [i \in ParkIdx |-> PendingFetch]]
    /\ pc' = [pc EXCEPT ![c] = "fetching"]
    /\ UNCHANGED <<now, store, currentSnapshot, history, response, rankVars, clientVars, uiVars>>

\* A park's response is ok and fetchParkData returns its body.  With the last
\* one Promise.all resolves and the snapshot is built.
FetchOk(c, i) ==
    /\ pc[c] \in {"fetching", "threw"}
    /\ fetches[c][i].status = "pending"
    /\ fetches' = [fetches EXCEPT ![c][i] = FulfilledFetch(ParkLiveData(PARKS[i]))]
    /\ IF pc[c] = "fetching" /\ \A j \in ParkIdx \ {i} : fetches[c][j].status = "ok"
       THEN /\ currentSnapshot' = [currentSnapshot EXCEPT ![c] =
                    MakeSnapshot(timestamp[c], fetches'[c][1].data, fetches'[c][2].data)]
            /\ pc' = [pc EXCEPT ![c] = "reading"]
       ELSE UNCHANGED <<currentSnapshot, pc>>
    /\ UNCHANGED <<now, store, timestamp, history, response, rankVars, clientVars, uiVars>>

\* Mutant of FetchFail: fetchParkData without the response.ok test returns
\* the body of the error response as if it were the park's data.
FetchFailAsData(c, i) ==
    /\ pc[c] \in {"fetching", "threw"}
    /\ fetches[c][i].status = "pending"
    /\ fetches' = [fetches EXCEPT ![c][i] = FulfilledFetch(NoData)]
    /\ IF pc[c] = "fetching" /\ \A j \in ParkIdx \ {i} : fetches[c][j].status = "ok"
       THEN /\ currentSnapshot' = [currentSnapshot EXCEPT ![c] =
                    MakeSnapshot(timestamp[c], fetches'[c][1].data, fetches'[c][2].data)]
            /\ pc' = [pc EXCEPT ![c] = "reading"]
       ELSE UNCHANGED <<currentSnapshot, pc>>
    /\ UNCHANGED <<now, store, timestamp, history, response, rankVars, clientVars, uiVars>>

\* A park's response is not ok, or the request fails: fetchParkData throws,
\* Promise.all rejects and so does getWaitTimes.  The other fetch goes on.
FetchFail(c, i) ==
    /\ pc[c] \in {"fetching", "threw"}
    /\ fetches[c][i].status = "pending"
    /\ fetches' = [fetches EXCEPT ![c][i] = RejectedFetch]
    /\ pc' = [pc EXCEPT ![c] = "threw"]
    /\ UNCHANGED <<now, store, timestamp, currentSnapshot, history, response, rankVars, clientVars, uiVars>>

\* readFile settles and the function runs on to the call of writeFile, or
\* to its return when nothing is to be saved.
ReadAndAppend(c, readFails) ==
    /\ pc[c] = "reading"
    /\ LET step == AppendStep(ReadHistory(store, readFails), currentSnapshot[c], timestamp[c])
       IN /\ history' = [history EXCEPT ![c] = step.history]
          /\ pc' = [pc EXCEPT ![c] = IF step.write THEN "writing" ELSE "returned"]
    /\ UNCHANGED <<now, store, timestamp, fetches, currentSnapshot, response, rankVars, clientVars, uiVars>>

\* writeFile opens the file, which truncates it.
WriteOpen(c) ==
    /\ pc[c] = "writing"
    /\ store' = FileText
    /\ pc' = [pc EXCEPT ![c] = "flushing"]
    /\ UNCHANGED <<now, timestamp, fetches, currentSnapshot, history, response, rankVars, clientVars, uiVars>>

\* Mutant of WriteOpenFail: step 3 without its try/catch lets the error out.
WriteOpenFailThrows(c) ==
    /\ pc[c] = "writing"
    /\ pc' = [pc EXCEPT ![c] = "threw"]
    /\ UNCHANGED <<now, store, timestamp, fetches, currentSnapshot, history, response, rankVars, clientVars, uiVars>>

\* writeFile cannot open the file (read-only file system): caught.
WriteOpenFail(c) ==
    /\ pc[c] = "writing"
    /\ pc' = [pc EXCEPT ![c] = "returned"]
    /\ UNCHANGED <<now, store, timestamp, fetches, currentSnapshot, history, response, rankVars, clientVars, uiVars>>

\* writeFile writes JSON.stringify(history) and resolves.
WriteData(c) ==
    /\ pc[c] = "flushing"
    /\ store' = WrittenFile(store, history[c].val)
    /\ pc' = [pc EXCEPT ![c] = "returned"]
    /\ UNCHANGED <<now, timestamp, fetches, currentSnapshot, history, response, rankVars, clientVars, uiVars>>

\* writeFile fails after it opened the file (disk full): caught.  The file
\* stays as it is, or holds a part of the data.
WriteDataFail(c) ==
    /\ pc[c] = "flushing"
    /\ store' \in {store, FileText}
    /\ pc' = [pc EXCEPT ![c] = "returned"]
    /\ UNCHANGED <<now, timestamp, fetches, currentSnapshot, history, response, rankVars, clientVars, uiVars>>

\* The caller has the result { current, history } or the error; the
\* invocation is over.
Finish(c) ==
    /\ pc[c] \in {"returned", "threw"}
    /\ \A i \in ParkIdx : fetches[c][i].status # "pending"
    /\ pc' = [pc EXCEPT ![c] = "idle"]
    /\ timestamp' = [timestamp EXCEPT ![c] = ToISOString(0)]
    /\ fetches' = [fetches EXCEPT ![c] = NoFetches]
    /\ currentSnapshot' = [currentSnapshot EXCEPT ![c] = NoSnapshot]
    /\ history' = [history EXCEPT ![c] = HistArray(<<>>)]
    /\ response' = [response EXCEPT ![c] = NoResponse]
    /\ UNCHANGED <<now, store, rankVars, clientVars, uiVars>>

\* Invocations overlap freely; the upstream and the file may fail.
Next ==
    \/ Tick
    \/ \E c \in Calls : Start(c)
    \/ \E c \in Calls, i \in ParkIdx : FetchOk(c, i)
    \/ \E c \in Calls, i \in ParkIdx : FetchFail(c, i)
    \/ \E c \in Calls, readFails \in BOOLEAN : ReadAndAppend(c, readFails)
    \/ \E c \in Calls : WriteOpen(c)
    \/ \E c \in Calls : WriteOpenFail(c)
    \/ \E c \in Calls : WriteData(c)
    \/ \E c \in Calls : WriteDataFail(c)
    \/ \E c \in Calls : Finish(c)

Spec == Init /\ [][Next]_vars

\* ------------------------------------------- one cycle at a time, sound file
\* getWaitTimes is called while no other invocation is under way.
StartAlone(c) ==
    /\ \A d \in Calls : pc[d] = "idle"
    /\ Start(c)

\* The file is absent, or holds a history one short of the cap or at the cap.
InitSeq ==
    /\ InitCalls
    /\ store \in {FileAbsent, FileArray(Prefill(HISTORY_CAP - 1)), FileArray(Prefill(HISTORY_CAP))}
    /\ RankIdle
    /\ ClientMount

\* A sequence of cycles against a file that reads and writes without fault;
\* the upstream may still fail.
NextSeq ==
    \/ Tick
    \/ \E c \in Calls : StartAlone(c)
    \/ \E c \in Calls, i \in ParkIdx : FetchOk(c, i)
    \/ \E c \in Calls, i \in ParkIdx : FetchFail(c, i)
    \/ \E c \in Calls : ReadAndAppend(c, FALSE)
    \/ \E c \in Calls : WriteOpen(c)
    \/ \E c \in Calls : WriteData(c)
    \/ \E c \in Calls : Finish(c)

SpecSeq == InitSeq /\ [][NextSeq]_vars

\* ------------------------------------------------- a damaged file at start
\* The file as a crash, an operator or another program left it: absent, not
\* JSON, or JSON that is no array.
InitCorrupt ==
    /\ InitCalls
    /\ store \in {FileAbsent, FileText, FileObject}
    /\ RankIdle
    /\ ClientMount

SpecCorrupt == InitCorrupt /\ [][Next]_vars

\* -------------------------------------------------- the rank and sort engine
\* Forecast points: two of today; one of today in local time that is
\* tomorrow in UTC; one of yesterday in local time that is today in UTC; one
\* of tomorrow.  The clock stands at BaseTime.
HOUR == 60 * 60 * 1000
TodayForecast ==
    Forecast(<<ForecastPoint(IsoTime(BaseTime + HOUR), 45),
               ForecastPoint(IsoTime(BaseTime + 15 * HOUR), 60),
               ForecastPoint(IsoTime(BaseTime + MS_PER_DAY), 90)>>)
OtherDaysForecast ==
    Forecast(<<ForecastPoint(IsoTime(BaseTime - 8 * HOUR), 80),
               ForecastPoint(IsoTime(BaseTime + MS_PER_DAY), 90)>>)
MalformedForecast ==
    Forecast(<<ForecastPoint(MissingTime, 99),
               ForecastPoint(GarbageTime, 95),
               ForecastPoint(IsoTime(BaseTime + HOUR), 20)>>)

\* The rides of the tests of sortRides (Alice, Bob with a forecast added,
\* Charlie) and rides with a part missing: no STANDBY in the queue, a queue
\* on a ride that is down, a wait of 0.
RideTemplates ==
    <<Ride("", "Alice", "OPERATING", Queue(Standby(10)), NoForecast),
      Ride("", "Bob", "OPERATING", Queue(Standby(30)), TodayForecast),
      Ride("", "Charlie", "CLOSED", NoQueue, NoForecast),
      Ride("", "Dave", "OPERATING", Queue(NoStandby), OtherDaysForecast),
      Ride("", "Erin", "DOWN", Queue(Standby(10)), MalformedForecast),
      Ride("", "Frank", "OPERATING", Queue(Standby(0)), Forecast(<<>>))>>

\* Every list of at most MaxRides of them, each ride with an id of its own.
RideLists ==
    {[i \in 1..n |-> [RideTemplates[t[i]] EXCEPT !.id = ToString(i)]] :
        n \in 0..MaxRides, t \in [1..MaxRides -> 1..Len(RideTemplates)]}

SortFields == {"name", "waitTime", "land", "status", "ticket", "peak", "favorite"}
SortDirections == {"asc", "desc"}

InitRank ==
    /\ InitCalls
    /\ store = FileAbsent
    /\ ClientMount
    /\ rides \in RideLists
    /\ call = NoCall
    /\ result = Returned(0)

\* sortRides(rides, sortField, sortDirection) is called and returns.
CallSortRides(sortField, sortDirection) ==
    /\ call = NoCall
    /\ call' = [NoCall EXCEPT !.op = "sortRides", !.sortField = sortField,
                              !.sortDirection = sortDirection]
    /\ result' = sortRides(rides, sortField, sortDirection)
    /\ rides' = ArgumentAfterSort(rides, sortField, sortDirection)
    /\ UNCHANGED <<now, store, pc, timestamp, fetches, currentSnapshot, history, response,
                   clientVars, uiVars>>

\* getHighOfDay(rides[i]) is called and returns.
CallGetHighOfDay(i) ==
    /\ call = NoCall
    /\ i \in 1..Len(rides)
    /\ call' = [NoCall EXCEPT !.op = "getHighOfDay", !.ride = i]
    /\ result' = getHighOfDay(rides[i])
    /\ UNCHANGED <<now, store, pc, timestamp, fetches, currentSnapshot, history, response,
                   rides, clientVars, uiVars>>

\* The Dashboard computes averageWaitTime from its rides.
CallAverageWaitTime ==
    /\ call = NoCall
    /\ call' = [NoCall EXCEPT !.op = "averageWaitTime"]
    /\ result' = Returned(averageWaitTime(rides))
    /\ UNCHANGED <<now, store, pc, timestamp, fetches, currentSnapshot, history, response,
                   rides, clientVars, uiVars>>

\* The Dashboard computes busynessLevel from its averageWaitTime.
CallBusynessLevel(avg) ==
    /\ call = NoCall
    /\ call' = [NoCall EXCEPT !.op = "busynessLevel", !.averageWaitTime = avg]
    /\ result' = Returned(busynessLevel(avg))
    /\ UNCHANGED <<now, store, pc, timestamp, fetches, currentSnapshot, history, response,
                   rides, clientVars, uiVars>>

\* The caller has the result.
Return ==
    /\ call # NoCall
    /\ call' = NoCall
    /\ result' = Returned(0)
    /\ UNCHANGED <<now, store, pc, timestamp, fetches, currentSnapshot, history, response,
                   rides, clientVars, uiVars>>

NextRank ==
    \/ \E sortField \in SortFields, sortDirection \in SortDirections :
          CallSortRides(sortField, sortDirection)
    \/ \E i \in 1..MaxRides : CallGetHighOfDay(i)
    \/ CallAverageWaitTime
    \/ \E avg \in 0..MaxAverage : CallBusynessLevel(avg)
    \/ Return

SpecRank == InitRank /\ [][NextRank]_vars

\* ------------------------------------------------- GET /api/wait-times
\* NextResponse.json(data): status 200, body { current, history }.
JsonData(current, hist) ==
    [threw |-> FALSE, status |-> 200, current |-> current, history |-> hist, error |-> ""]
\* NextResponse.json({ error: 'Failed to fetch wait times' }, { status: 500 })
JsonError ==
    [threw |-> FALSE, status |-> 500, current |-> NoSnapshot, history |-> HistArray(<<>>),
     error |-> "Failed to fetch wait times"]
\* The handler throws.
Unhandled == [NoResponse EXCEPT !.threw = TRUE]

\* await getWaitTimes() has returned data: the handler answers with it.
RespondOk(c) ==
    /\ pc[c] = "returned"
    /\ response[c] = NoResponse
    /\ response' = [response EXCEPT ![c] = JsonData(currentSnapshot[c], history[c])]
    /\ UNCHANGED <<now, store, pc, timestamp, fetches, currentSnapshot, history,
                   rankVars, clientVars, uiVars>>

\* Mutant of RespondError: the handler without its try/catch.
RespondErrorUncaught(c) ==
    /\ pc[c] = "threw"
    /\ response[c] = NoResponse
    /\ response' = [response EXCEPT ![c] = Unhandled]
    /\ UNCHANGED <<now, store, pc, timestamp, fetches, currentSnapshot, history,
                   rankVars, clientVars, uiVars>>

\* await getWaitTimes() has thrown: caught, logged, answered with 500.
RespondError(c) ==
    /\ pc[c] = "threw"
    /\ response[c] = NoResponse
    /\ response' = [response EXCEPT ![c] = JsonError]
    /\ UNCHANGED <<now, store, pc, timestamp, fetches, currentSnapshot, history,
                   rankVars, clientVars, uiVars>>

\* The request is over once the handler has answered it.
FinishGet(c) == response[c] # NoResponse /\ Finish(c)

\* Requests one at a time, each one call of getWaitTimes, against a file
\* that may be damaged at the start and may fail.
NextHttp ==
    \/ Tick
    \/ \E c \in Calls : StartAlone(c)
    \/ \E c \in Calls, i \in ParkIdx : FetchOk(c, i)
    \/ \E c \in Calls, i \in ParkIdx : FetchFail(c, i)
    \/ \E c \in Calls, readFails \in BOOLEAN : ReadAndAppend(c, readFails)
    \/ \E c \in Calls : WriteOpen(c)
    \/ \E c \in Calls : WriteOpenFail(c)
    \/ \E c \in Calls : WriteData(c)
    \/ \E c \in Calls : WriteDataFail(c)
    \/ \E c \in Calls : RespondOk(c)
    \/ \E c \in Calls : RespondError(c)
    \/ \E c \in Calls : FinishGet(c)

SpecHttp == InitCorrupt /\ [][NextHttp]_vars

\* ------------------------------------------------- the Dashboard's fetchData
\* The body of a 200 response of GET /api/wait-times: { current, history }
\* with the snapshot the server took when it handled the request.
ServedSnapshot(t) == MakeSnapshot(ToISOString(t), ParkLiveData(PARKS[1]), ParkLiveData(PARKS[2]))
OkReply(t) ==
    [kind |-> "ok", current |-> ServedSnapshot(t), history |-> HistArray(<<ServedSnapshot(t)>>)]
\* A response that is not ok (the handler's 500), and a request that failed.
NotOkReply == [NoReply EXCEPT !.kind = "not ok"]
NetworkError == [NoReply EXCEPT !.kind = "network error"]

\* setData(result)
DataOf(r) == [isNull |-> FALSE, current |-> r.current, history |-> r.history]

\* What the component renders: the skeleton while loading without data, else
\* the dashboard: StatsHeader, HeaderToolbar with the refresh button (disabled
\* while loading) and the rides of data?.current with data?.history || [].
View ==
    IF loading /\ data.isNull
    THEN [elements |-> {"Skeleton"}, current |-> NoSnapshot, history |-> HistArray(<<>>),
          refreshDisabled |-> TRUE]
    ELSE [elements |-> {"StatsHeader", "HeaderToolbar", "Rides"},
          current |-> data.current, history |-> data.history,
          refreshDisabled |-> loading]

\* fetchData is called: setLoading(true) and the request goes out.
FetchData(r) ==
    /\ refreshPc[r] = "idle"
    /\ loading' = TRUE
    /\ refreshPc' = [refreshPc EXCEPT ![r] = "fetching"]
    /\ dataBefore' = [dataBefore EXCEPT ![r] = data]
    /\ UNCHANGED <<data, reply, lastRefresh>>
    /\ UNCHANGED <<now, store, pc, timestamp, fetches, currentSnapshot, history, response,
                   rankVars, uiVars>>

\* No call of fetchData has been made yet.
BeforeMount == lastRefresh = "none" /\ \A r \in Refreshes : refreshPc[r] = "idle"

\* The effect that runs on mount calls fetchData and sets the interval.
Mount(r) == BeforeMount /\ FetchData(r)

\* The interval fires: setInterval(fetchData, REFRESH_INTERVAL).
IntervalFetch(r) == ~BeforeMount /\ FetchData(r)

\* The refresh button, disabled while loading, is clicked.
ClickRefresh(r) == ~BeforeMount /\ ~View.refreshDisabled /\ FetchData(r)

\* The server answers the request, or the request fails.
Answer(r) ==
    /\ refreshPc[r] = "fetching"
    /\ reply' \in {[reply EXCEPT ![r] = a] : a \in {OkReply(now), NotOkReply, NetworkError}}
    /\ refreshPc' = [refreshPc EXCEPT ![r] = "answered"]
    /\ UNCHANGED <<data, loading, dataBefore, lastRefresh>>
    /\ UNCHANGED <<now, store, pc, timestamp, fetches, currentSnapshot, history, response,
                   rankVars, uiVars>>

\* The response is ok: setData(await response.json()), then setLoading(false).
ReceiveOk(r) ==
    /\ refreshPc[r] = "answered"
    /\ reply[r].kind = "ok"
    /\ data' = DataOf(reply[r])
    /\ loading' = FALSE
    /\ lastRefresh' = "ok"
    /\ refreshPc' = [refreshPc EXCEPT ![r] = "idle"]
    /\ reply' = [reply EXCEPT ![r] = NoReply]
    /\ UNCHANGED dataBefore
    /\ UNCHANGED <<now, store, pc, timestamp, fetches, currentSnapshot, history, response,
                   rankVars, uiVars>>

\* Mutant of ReceiveFail: the catch block resets the data, setData(null).
ReceiveFailBlanks(r) ==
    /\ refreshPc[r] = "answered"
    /\ reply[r].kind # "ok"
    /\ data' = NullData
    /\ loading' = FALSE
    /\ lastRefresh' = "failed"
    /\ refreshPc' = [refreshPc EXCEPT ![r] = "idle"]
    /\ reply' = [reply EXCEPT ![r] = NoReply]
    /\ UNCHANGED dataBefore
    /\ UNCHANGED <<now, store, pc, timestamp, fetches, currentSnapshot, history, response,
                   rankVars, uiVars>>

\* Mutant of ReceiveFail: fetchData without its finally block leaves loading
\* as it is when the request failed.
ReceiveFailNoFinally(r) ==
    /\ refreshPc[r] = "answered"
    /\ reply[r].kind # "ok"
    /\ lastRefresh' = "failed"
    /\ refreshPc' = [refreshPc EXCEPT ![r] = "idle"]
    /\ reply' = [reply EXCEPT ![r] = NoReply]
    /\ UNCHANGED <<data, loading, dataBefore>>
    /\ UNCHANGED <<now, store, pc, timestamp, fetches, currentSnapshot, history, response,
                   rankVars, uiVars>>

\* fetch rejected or the response is not ok: the error is thrown, caught and
\* logged with console.error; then setLoading(false).
ReceiveFail(r) ==
    /\ refreshPc[r] = "answered"
    /\ reply[r].kind # "ok"
    /\ loading' = FALSE
    /\ lastRefresh' = "failed"
    /\ refreshPc' = [refreshPc EXCEPT ![r] = "idle"]
    /\ reply' = [reply EXCEPT ![r] = NoReply]
    /\ UNCHANGED <<data, dataBefore>>
    /\ UNCHANGED <<now, store, pc, timestamp, fetches, currentSnapshot, history, response,
                   rankVars, uiVars>>

NextClient ==
    \/ Tick
    \/ \E r \in Refreshes : Mount(r)
    \/ \E r \in Refreshes : IntervalFetch(r)
    \/ \E r \in Refreshes : ClickRefresh(r)
    \/ \E r \in Refreshes : Answer(r)
    \/ \E r \in Refreshes : ReceiveOk(r)
    \/ \E r \in Refreshes : ReceiveFail(r)

SpecClient == Init /\ [][NextClient]_vars

\* ------------------------------------------ cycles and refreshes that settle
\* The server and the page share no state, so their steps commute: the model
\* lets the server's cycles run before the page is opened.
ServerIdle == \A c \in Calls : pc[c] = "idle"
StartOnServer(c) == BeforeMount /\ Start(c)
MountPage(r) == ServerIdle /\ Mount(r)

NextLive ==
    \/ Tick
    \/ \E c \in Calls : StartOnServer(c)
    \/ \E c \in Calls, i \in ParkIdx : FetchOk(c, i)
    \/ \E c \in Calls, i \in ParkIdx : FetchFail(c, i)
    \/ \E c \in Calls, readFails \in BOOLEAN : ReadAndAppend(c, readFails)
    \/ \E c \in Calls : WriteOpen(c)
    \/ \E c \in Calls : WriteOpenFail(c)
    \/ \E c \in Calls : WriteData(c)
    \/ \E c \in Calls : WriteDataFail(c)
    \/ \E c \in Calls : Finish(c)
    \/ \E r \in Refreshes : MountPage(r)
    \/ \E r \in Refreshes : IntervalFetch(r)
    \/ \E r \in Refreshes : ClickRefresh(r)
    \/ \E r \in Refreshes : Answer(r)
    \/ \E r \in Refreshes : ReceiveOk(r)
    \/ \E r \in Refreshes : ReceiveFail(r)

\* Every upstream fetch and every operation on the file settles, one way or
\* the other, and a settled promise's continuation runs: the event loop
\* leaves no ready continuation waiting for ever.  Nothing obliges a call to
\* start, the clock to advance or the user to click.
FairServer ==
    /\ \A c \in Calls, i \in ParkIdx : WF_vars(FetchOk(c, i) \/ FetchFail(c, i))
    /\ \A c \in Calls : WF_vars(\E readFails \in BOOLEAN : ReadAndAppend(c, readFails))
    /\ \A c \in Calls : WF_vars(WriteOpen(c) \/ WriteOpenFail(c))
    /\ \A c \in Calls : WF_vars(WriteData(c) \/ WriteDataFail(c))
    /\ \A c \in Calls : WF_vars(Finish(c))
FairClient ==
    /\ \A r \in Refreshes : WF_vars(Answer(r))
    /\ \A r \in Refreshes : WF_vars(ReceiveOk(r) \/ ReceiveFail(r))

SpecLive == Init /\ [][NextLive]_vars /\ FairServer /\ FairClient

\* --------------------------------------------- the Dashboard's list of rides
\* currentPark.liveData.filter(...): the attractions that are not under
\* refurbishment and whose name holds the search text.  The rides of the
\* model are attractions and the search text is the initial ''.
Filtered(rs) == SelectSeq(rs, LAMBDA ride : ride.status # "REFURBISHMENT")

\* The Dashboard's getHighOfDay, once its declaration has run.
DashboardGetHighOfDay(ride) ==
    IF ~ride.forecast.defined THEN Returned(0)
    ELSE LET today == ToDateString(NewDate(IsoTime(now)))
             todayForecasts ==
                 {i \in 1..Len(ride.forecast.points) :
                     ToDateString(NewDate(ride.forecast.points[i].time)) = today}
         IN IF todayForecasts = {} THEN Returned(0)
            ELSE Returned(Max({ride.forecast.points[i].waitTime : i \in todayForecasts}))

\* getHighOfDay as the comparator of the memo finds it.  The memo's function
\* runs inside useMemo, during the render, and const getHighOfDay is declared
\* further down in the component: the binding is not initialised yet and the
\* call throws a ReferenceError (a TypeError where const is compiled to var).
GetHighOfDayInMemo(ride) == Threw

\* The switch of the inline comparator: valA for ride a.
DashboardSortKey(ride, sortField) ==
    CASE sortField = "favorite" ->
            Returned(Num(IF \E i \in 1..Len(favorites) : favorites[i] = ride.id
                         THEN 1 ELSE 0))
      [] sortField = "name" -> Returned(Str(ride.name))
      [] sortField = "waitTime" ->
            Returned(Num(IF ride.status = "OPERATING" THEN StandbyWaitOrZero(ride) ELSE -1))
      [] sortField = "land" -> Returned(Str(getLand(ride.name)))
      [] sortField = "status" -> Returned(Str(ride.status))
      [] sortField = "ticket" -> Returned(Num(score(ride)))
      [] sortField = "peak" ->
            IF GetHighOfDayInMemo(ride).threw THEN [threw |-> TRUE, val |-> Num(0)]
            ELSE Returned(Num(GetHighOfDayInMemo(ride).val))
      [] OTHER -> Returned(Str(""))

\* The inline comparator.
DashboardCompare(a, b, sortField, sortDirection) ==
    LET valA == DashboardSortKey(a, sortField).val
        valB == DashboardSortKey(b, sortField).val
    IN IF Less(valA, valB) THEN (IF sortDirection = "asc" THEN -1 ELSE 1)
       ELSE IF Less(valB, valA) THEN (IF sortDirection = "asc" THEN 1 ELSE -1)
       ELSE 0

\* filtered.sort(comparator), as ArraySort.
RECURSIVE DashboardInsertionPoint(_, _, _, _, _)
DashboardInsertionPoint(sorted, x, p, sortField, sortDirection) ==
    IF p >= 1 /\ DashboardCompare(x, sorted[p], sortField, sortDirection) < 0
    THEN DashboardInsertionPoint(sorted, x, p - 1, sortField, sortDirection)
    ELSE p

RECURSIVE DashboardArraySort(_, _, _, _)
DashboardArraySort(arr, n, sortField, sortDirection) ==
    IF n = 0 THEN <<>>
    ELSE LET sorted == DashboardArraySort(arr, n - 1, sortField, sortDirection)
             p == DashboardInsertionPoint(sorted, arr[n], n - 1, sortField, sortDirection)
         IN SubSeq(sorted, 1, p) \o <<arr[n]>> \o SubSeq(sorted, p + 1, n - 1)

\* The memo `rides` of the Dashboard for the park's live data: filtered, then
\* sorted in place.  An exception in the comparator leaves the render.
DashboardRides(liveData, sortField, sortDirection) ==
    LET filtered == Filtered(liveData)
    IN IF Len(filtered) >= 2
          /\ \E i \in 1..Len(filtered) : DashboardSortKey(filtered[i], sortField).threw
       THEN Threw
       ELSE Returned(DashboardArraySort(filtered, Len(filtered), sortField, sortDirection))

\* Mutant of handleSort: another column keeps the direction.
handleSortKeepsDirection(state, field) ==
    IF state.sortField = field
    THEN [state EXCEPT !.sortDirection = IF @ = "asc" THEN "desc" ELSE "asc"]
    ELSE [state EXCEPT !.sortField = field]

\* handleSort(field): the sort state after it.
handleSort(state, field) ==
    IF state.sortField = field
    THEN [state EXCEPT !.sortDirection = IF @ = "asc" THEN "desc" ELSE "asc"]
    ELSE [sortField |-> field, sortDirection |-> "desc"]

\* The Dashboard shows the live data of a park: `rides` is that data,
\* `result` the memo of the first render.
InitDashboard ==
    /\ InitCalls
    /\ store = FileAbsent
    /\ ClientMount
    /\ rides \in RideLists
    /\ call = NoCall
    /\ result = DashboardRides(rides, "waitTime", "desc")

\* A column header is clicked: handleSort(field) sets the sort state and the
\* component renders again, which computes the memo anew.  A render that
\* threw has taken the component down.
HandleSort(field) ==
    /\ ~result.threw
    /\ call' = [NoCall EXCEPT !.op = "handleSort", !.sortField = field]
    /\ sortState' = handleSort(sortState, field)
    /\ result' = DashboardRides(rides, sortState'.sortField, sortState'.sortDirection)
    /\ UNCHANGED <<now, store, pc, timestamp, fetches, currentSnapshot, history, response,
                   rides, clientVars, favorites, isLoaded, effects, localStorage>>

NextDashboard == \E field \in SortFields : HandleSort(field)

SpecDashboard == InitDashboard /\ [][NextDashboard]_vars

\* ------------------------------------------------------------ useFavorites
\* The ids of the rides.
RideIds == {ToString(i) : i \in 1..MaxRides}

\* The JSON token of a string, and the string of a token.
Quote(id) == "\"" \o id \o "\""
IsStringToken(token) == \E id \in RideIds : Quote(id) = token
Unquote(token) == CHOOSE id \in RideIds : Quote(id) = token

\* JSON.stringify of an array of strings: [ "a" , "b" ]
RECURSIVE JSONElements(_, _)
JSONElements(ids, n) ==
    IF n = 0 THEN <<>>
    ELSE IF n = 1 THEN <<Quote(ids[1])>>
    ELSE JSONElements(ids, n - 1) \o <<",", Quote(ids[n])>>
JSONStringify(ids) == <<"[">> \o JSONElements(ids, Len(ids)) \o <<"]">>

\* JSON.parse of a text: the array of strings it denotes, or a SyntaxError.
IsJSONArray(text) ==
    /\ Len(text) >= 2
    /\ text[1] = "[" /\ text[Len(text)] = "]"
    /\ Len(text) > 2 =>
          /\ Len(text) % 2 = 1
          /\ \A k \in 2..(Len(text) - 1) :
                IF k % 2 = 0 THEN IsStringToken(text[k]) ELSE text[k] = ","
JSONParse(text) ==
    IF IsJSONArray(text)
    THEN Returned([k \in 1..((Len(text) - 1) \div 2) |-> Unquote(text[2 * k])])
    ELSE Threw

\* The effect that loads: the state `favorites` it sets.  Nothing saved, or
\* a text that JSON.parse rejects (caught and logged), leaves the state.
LoadedFavorites(saved, favs) ==
    IF saved.kind = "text" /\ ~JSONParse(saved.val).threw
    THEN JSONParse(saved.val).val
    ELSE favs

\* Mutant of SaveEffect: the effect without its test of isLoaded.
SaveEffectUngated(item, favs, loaded) == Item(JSONStringify(favs))

\* The effect that saves, run with the favorites and isLoaded of its render:
\* the stored item after it.
SaveEffect(item, favs, loaded) ==
    IF loaded THEN Item(JSONStringify(favs)) ELSE item

\* prev.includes(rideId) ? prev.filter((id) => id !== rideId) : [...prev, rideId]
Toggled(prev, rideId) ==
    IF \E i \in 1..Len(prev) : prev[i] = rideId
    THEN SelectSeq(prev, LAMBDA id : id # rideId)
    ELSE Append(prev, rideId)

\* What an earlier visit can have left in the local storage: nothing, a
\* saved list of up to two ids, or a text cut short.
SavedItems ==
    {NoItem, Item(<<"[", Quote("1")>>)}
        \cup {Item(JSONStringify(ids)) :
                 ids \in {<<>>} \cup {<<a>> : a \in RideIds}
                              \cup {<<a, b>> : a \in RideIds, b \in RideIds}}

InitFavorites ==
    /\ InitCalls
    /\ store = FileAbsent
    /\ RankIdle
    /\ FetchMount
    /\ SortMount
    /\ FavoritesMount
    /\ localStorage \in SavedItems

\* The effects of the first render run, in the order of their declaration:
\* the one that loads reads the item, sets favorites and isLoaded; the one
\* that saves runs with the favorites and isLoaded of that render, [] and
\* false.  The state set makes the component render again.
MountEffects ==
    /\ effects = "mount"
    /\ favorites' = LoadedFavorites(localStorage, favorites)
    /\ isLoaded' = TRUE
    /\ localStorage' = SaveEffect(localStorage, favorites, isLoaded)
    /\ effects' = "render"
    /\ UNCHANGED <<now, store, pc, timestamp, fetches, currentSnapshot, history, response,
                   rankVars, clientVars, sortState>>

\* The effects of a later render run: favorites or isLoaded has changed, so
\* the effect that saves runs; the one that loads has no dependency.
RenderEffects ==
    /\ effects = "render"
    /\ localStorage' = SaveEffect(localStorage, favorites, isLoaded)
    /\ effects' = "none"
    /\ UNCHANGED <<now, store, pc, timestamp, fetches, currentSnapshot, history, response,
                   rankVars, clientVars, sortState, favorites, isLoaded>>

\* toggleFavorite(rideId), from a click: React runs the pending effects
\* before it handles the click.  The new favorites make the component
\* render again.
ToggleFavorite(rideId) ==
    /\ effects = "none"
    /\ favorites' = Toggled(favorites, rideId)
    /\ effects' = "render"
    /\ UNCHANGED <<now, store, pc, timestamp, fetches, currentSnapshot, history, response,
                   rankVars, clientVars, sortState, isLoaded, localStorage>>

NextFavorites ==
    \/ MountEffects
    \/ RenderEffects
    \/ \E rideId \in RideIds : ToggleFavorite(rideId)

SpecFavorites == InitFavorites /\ [][NextFavorites]_vars

\* ------------------------------------------------------------------ claims
\* The persisted history: the array in the file, empty when the file is
\* absent or holds no JSON array.
StoreHistory == IF store.kind = "array" THEN store.val ELSE <<>>

Last(h) == h[Len(h)]

\* C1. Dedup window, for a sequence of cycles against a sound file: a fresh
\* snapshot is persisted if and only if the history is empty or the snapshot
\* is more than 60 s later than the last persisted one.  Only if: any two
\* consecutive persisted snapshots are more than 60 s apart.  If: when a
\* cycle has returned, the history is not empty, and its last entry is the
\* cycle's snapshot or is at most 60 s older than it.
C1_DedupWindow ==
    /\ \A i \in 1..(Len(StoreHistory) - 1) :
          GetTime(StoreHistory[i + 1].timestamp) - GetTime(StoreHistory[i].timestamp)
              > 60 * 1000
    /\ \A c \in Calls :
          pc[c] = "returned" =>
            /\ store.kind = "array"
            /\ Len(store.val) > 0
            /\ \/ Last(store.val) = currentSnapshot[c]
               \/ GetTime(currentSnapshot[c].timestamp)
                    - GetTime(Last(store.val).timestamp) <= 60 * 1000

\* A cycle exactly 60 s after the last persisted snapshot has returned and
\* its snapshot was dropped.
C1_Witness ==
    \E c \in Calls :
        /\ pc[c] = "returned"
        /\ store.kind = "array"
        /\ Len(store.val) > 0
        /\ Last(store.val) # currentSnapshot[c]
        /\ GetTime(currentSnapshot[c].timestamp)
             - GetTime(Last(store.val).timestamp) = 60 * 1000

\* The old history h with its k oldest entries removed and s added at the end.
EvictAndAppend(h, k, s) == Append(SubSeq(h, k + 1, Len(h)), s)

C2_Bounded ==
    /\ Len(StoreHistory) <= 2000
    /\ \A c \in Calls : Len(history[c].val) <= 2000

C2_Evict ==
    \A c \in Calls :
        /\ (pc[c] = "reading" /\ pc'[c] = "writing") =>
              LET old == StoreHistory
                  new == history'[c].val
                  k == Len(old) + 1 - Len(new)
              IN /\ k >= 0
                 /\ k > 0 => Len(new) = 2000
                 /\ new = EvictAndAppend(old, k, currentSnapshot[c])
        /\ (pc[c] = "flushing" /\ pc'[c] = "returned") =>
              store' = FileArray(history[c].val)

\* C2. Bounded retention, for a sequence of cycles: the persisted history
\* and the history of every invocation never hold more than 2000 entries;
\* the history an append builds is the persisted one with its oldest entries
\* removed (none unless the result is at the cap), the others in their order,
\* and the new snapshot at the end; and that is what the write persists.
C2_BoundedRetention == []C2_Bounded /\ [][C2_Evict]_vars

\* A full history had its oldest entry evicted by a later append.
C2_Witness ==
    /\ store.kind = "array"
    /\ Len(store.val) = 2000
    /\ store.val[1] = Prefill(HISTORY_CAP)[2]
    /\ GetTime(Last(store.val).timestamp) > BaseTime

\* An invocation takes a step.
StepOf(c) == pc'[c] # pc[c] \/ fetches'[c] # fetches[c]

\* C3. Single flight: at every moment at most one upstream fetch per park is
\* in flight.
C3_SingleFlight ==
    \A i \in ParkIdx :
        Cardinality({c \in Calls : fetches[c][i].status = "pending"}) <= 1

C4_Inv ==
    \A c \in Calls :
        /\ (\E i \in ParkIdx : fetches[c][i].status = "failed") => pc[c] = "threw"
        /\ pc[c] \in {"reading", "writing", "flushing", "returned"} =>
              /\ Len(currentSnapshot[c].parks) = Len(PARKS)
              /\ \A i \in ParkIdx : currentSnapshot[c].parks[i].id = PARKS[i]

C4_Step ==
    \A c \in Calls :
        (StepOf(c) /\ pc[c] \in {"idle", "fetching", "threw"}) =>
            /\ store' = store
            /\ pc[c] = "threw" => pc'[c] \in {"threw", "idle"}

\* C4. All parks or nothing: an invocation with a failed fetch has failed as
\* a whole; no step of an invocation that is fetching or has failed changes
\* the file, and a failed invocation never goes on to the store; the
\* snapshot of an invocation that got past the fetches holds every
\* configured park, in the configured order.
C4_AllParksOrNothing == []C4_Inv /\ [][C4_Step]_vars

\* One park was fetched, the other failed, the invocation has failed and the
\* history persisted before it is in the file.
C4_Witness ==
    \E c \in Calls :
        /\ pc[c] = "threw"
        /\ fetches[c][1].status = "ok"
        /\ fetches[c][2].status = "failed"
        /\ store.kind = "array"
        /\ Len(store.val) > 0

C5_Inv ==
    \A c \in Calls :
        /\ pc[c] = "threw" <=> \E i \in ParkIdx : fetches[c][i].status = "failed"
        /\ pc[c] = "returned" =>
              /\ \A i \in ParkIdx : fetches[c][i].status = "ok"
              /\ currentSnapshot[c].timestamp = timestamp[c]
              /\ \A i \in ParkIdx : currentSnapshot[c].parks[i] = fetches[c][i].data

C5_Step ==
    \A c \in Calls :
        pc[c] \in {"reading", "writing", "flushing"} =>
            pc'[c] \in {"reading", "writing", "flushing", "returned"}

\* C5. Storage faults are never surfaced: an invocation has failed if and
\* only if one of its fetches failed; once the fetches have succeeded, no
\* step (a failed read, unparseable content, a failed write) makes it fail,
\* and what it returns as current is the snapshot of its own fetches and
\* timestamp.
C5_StorageFaultsSwallowed == []C5_Inv /\ [][C5_Step]_vars

\* An invocation has returned its snapshot although writeFile could not
\* open the file: the history it returns holds the snapshot, the file is
\* still absent.
C5_Witness ==
    \E c \in Calls :
        /\ pc[c] = "returned"
        /\ store.kind = "absent"
        /\ history[c] = HistArray(<<currentSnapshot[c]>>)

\* C6. Corrupt store equals cold start: when the file is absent, is not JSON
\* or is JSON that is no array of snapshots, the invocation that reads it
\* goes on with the history holding its snapshot alone, and saves it.
C6_CorruptIsColdStart ==
    [][\A c \in Calls :
          (pc[c] = "reading" /\ pc'[c] # "reading"
              /\ store.kind \in {"absent", "text", "object"}) =>
            /\ history'[c] = HistArray(<<currentSnapshot[c]>>)
            /\ pc'[c] = "writing"]_vars

\* C7. Returned history is the durable log: when an invocation returns, the
\* history it returns is the persisted history.
C7_ReturnedIsDurable ==
    [][\A c \in Calls :
          (pc[c] # "returned" /\ pc'[c] = "returned") =>
              history'[c] = HistArray(StoreHistory')]_vars

\* C8. Append-only history: a step that takes the file from one history to
\* another removes only oldest entries, and those only when the new history
\* is at the cap, and adds one snapshot at the end.
C8_AppendOnly ==
    [][(store.kind = "array" /\ store'.kind = "array" /\ store' # store) =>
          /\ Len(store'.val) > 0
          /\ \E k \in 0..Len(store.val) :
                /\ store'.val = EvictAndAppend(store.val, k, Last(store'.val))
                /\ k > 0 => Len(store'.val) = 2000]_vars

\* C9. Atomic history reads: an invocation that reads the file while
\* another one is between the opening and the end of its write, appending to
\* a history that was not empty, finds a complete history in the file, never
\* an empty or partly written one.
C9_AtomicReads ==
    [][\A c \in Calls, d \in Calls :
          (c # d /\ pc[c] = "reading" /\ pc'[c] # "reading"
              /\ pc[d] = "flushing" /\ Len(history[d].val) >= 2) =>
            store.kind # "text"]_vars

\* C10. Monotonic time series: the timestamps of consecutive entries of the
\* persisted history never decrease.
C10_Monotonic ==
    \A i \in 1..(Len(StoreHistory) - 1) :
        GetTime(StoreHistory[i].timestamp) <= GetTime(StoreHistory[i + 1].timestamp)

\* The file holds two snapshots, the second one from a later cycle.
C10_Witness ==
    /\ store.kind = "array"
    /\ Len(store.val) >= 2
    /\ GetTime(store.val[1].timestamp) < GetTime(store.val[2].timestamp)

\* ---------------------------------------------- claims, rank and sort engine
\* The projected key of a ride under the sort key of the call.
KeyOf(ride) == SortKey(ride, call.sortField).val
SameKey(a, b) == ~Less(KeyOf(a), KeyOf(b)) /\ ~Less(KeyOf(b), KeyOf(a))
SortReturned == call.op = "sortRides" /\ ~result.threw

\* C11. sortRides is stable for every sort key and both directions: two
\* rides with equal projected keys stand in the output in the order in which
\* they stand in the input.
C11_Stable ==
    call.op = "sortRides" =>
        /\ ~result.threw
        /\ \A i \in 1..Len(rides), j \in 1..Len(rides) :
              (i < j /\ SameKey(rides[i], rides[j])) =>
                 \E p \in 1..Len(result.val), q \in 1..Len(result.val) :
                    p < q /\ result.val[p] = rides[i] /\ result.val[q] = rides[j]

\* A sort that moved a ride across two rides of equal key.
C11_Witness ==
    /\ SortReturned
    /\ Len(rides) = 3
    /\ SameKey(rides[1], rides[2])
    /\ result.val = <<rides[3], rides[1], rides[2]>>

\* C12. sortRides orders by the projected key: in the output each ride's key
\* is at most the next one's when the direction is 'asc' and at least the
\* next one's when it is 'desc', for every key and every input.
C12_Ordered ==
    call.op = "sortRides" =>
        /\ ~result.threw
        /\ Len(result.val) = Len(rides)
        /\ \A k \in 1..Len(result.val) - 1 :
              IF call.sortDirection = "asc"
              THEN ~Less(KeyOf(result.val[k + 1]), KeyOf(result.val[k]))
              ELSE ~Less(KeyOf(result.val[k]), KeyOf(result.val[k + 1]))

\* A descending sort of three rides of increasing keys.
C12_Witness ==
    /\ SortReturned
    /\ call.sortDirection = "desc"
    /\ Len(rides) = 3
    /\ Less(KeyOf(rides[1]), KeyOf(rides[2]))
    /\ Less(KeyOf(rides[2]), KeyOf(rides[3]))
    /\ result.val = <<rides[3], rides[2], rides[1]>>

\* C13. sortRides(rides, 'waitTime', 'asc') places every ride that is not
\* OPERATING before every OPERATING ride whose standby wait is at least 0.
C13_ClosedFirst ==
    (call.op = "sortRides" /\ call.sortField = "waitTime" /\ call.sortDirection = "asc") =>
        /\ ~result.threw
        /\ \A p \in 1..Len(result.val), q \in 1..Len(result.val) :
              (/\ result.val[p].status # "OPERATING"
               /\ result.val[q].status = "OPERATING"
               /\ StandbyWaitOrZero(result.val[q]) >= 0) => p < q

\* An operating ride with a wait of 0 came in before a ride that is down and
\* has a queue with a wait of 10, and went out after it.
C13_Witness ==
    /\ SortReturned
    /\ call.sortField = "waitTime" /\ call.sortDirection = "asc"
    /\ Len(rides) >= 2
    /\ rides[1].status = "OPERATING" /\ StandbyWaitOrZero(rides[1]) = 0
    /\ rides[2].status = "DOWN" /\ StandbyWaitOrZero(rides[2]) = 10
    /\ result.val[1] = rides[2]

\* C14. Sorting by 'favorite' with sortRides uses key 1 for a ride whose id
\* is in the favorites set of the caller and 0 otherwise: in 'desc'
\* direction every favorite ride comes before every other ride, whatever
\* the set.
C14_FavoritesFirst ==
    (call.op = "sortRides" /\ call.sortField = "favorite" /\ call.sortDirection = "desc") =>
        /\ ~result.threw
        /\ \A favs \in SUBSET {rides[i].id : i \in 1..Len(rides)} :
              \A p \in 1..Len(result.val), q \in 1..Len(result.val) :
                 (result.val[p].id \in favs /\ result.val[q].id \notin favs)
                    => p < q

\* The rides that count in the mean: OPERATING, with a standby wait.
CountedRides(rs) ==
    SelectSeq(rs, LAMBDA r : r.status = "OPERATING" /\ r.queue.defined
                              /\ r.queue.STANDBY.defined)

\* C15. averageWait is the rounded mean of the standby wait over the rides
\* that are OPERATING and have a standby wait, and 0 when there is none; an
\* OPERATING ride without a standby wait counts neither in the sum nor in
\* the divisor.
C15_MeanOfDefinedWaits ==
    call.op = "averageWaitTime" =>
        result.val = IF Len(CountedRides(rides)) = 0 THEN 0
                     ELSE MathRound(TotalWait(CountedRides(rides), Len(CountedRides(rides))),
                                    Len(CountedRides(rides)))

\* The calendar day, in local time, of an instant.
LocalDay(t) == (t + LOCAL_OFFSET) \div MS_PER_DAY

\* The well-formed forecast points of a ride that are dated today, and the
\* greatest wait among them, 0 when there is none.
PointsOfToday(ride) ==
    {i \in 1..Len(ride.forecast.points) :
        /\ ride.forecast.points[i].time.kind = "iso"
        /\ LocalDay(GetTime(ride.forecast.points[i].time.val)) = LocalDay(now)}
PeakOfToday(ride) ==
    IF PointsOfToday(ride) = {} THEN 0
    ELSE Max({ride.forecast.points[i].waitTime : i \in PointsOfToday(ride)})
HasMalformedPoint(ride) ==
    \E i \in 1..Len(ride.forecast.points) : ride.forecast.points[i].time.kind # "iso"

\* C16. getHighOfDay returns 0 for a ride with no forecast and for a ride
\* whose forecast has no point dated today, whatever the waits of the points
\* of other days; otherwise it returns the greatest waitTime among the
\* points of today only.
C16_PeakOfToday ==
    call.op = "getHighOfDay" =>
        LET ride == rides[call.ride]
        IN /\ ~result.threw
           /\ ~ride.forecast.defined => result.val = 0
           /\ PointsOfToday(ride) = {} => result.val = 0
           /\ PointsOfToday(ride) # {} =>
                 /\ \E i \in PointsOfToday(ride) :
                       result.val = ride.forecast.points[i].waitTime
                 /\ \A i \in PointsOfToday(ride) :
                       result.val >= ride.forecast.points[i].waitTime

\* getHighOfDay has returned 0 for a forecast whose points, with waits of 80
\* and 90, are all of other days.
C16_Witness ==
    /\ call.op = "getHighOfDay"
    /\ rides[call.ride].forecast = OtherDaysForecast
    /\ result = Returned(0)

\* C17. A malformed forecast entry never breaks ranking: getHighOfDay does
\* not fail on a point with a missing or unparseable time and leaves it out
\* of the maximum; sortRides with key 'peak' over rides with such points
\* returns all the rides, ordered by the peaks of the well-formed points.
C17_MalformedExcluded ==
    /\ (call.op = "getHighOfDay" /\ HasMalformedPoint(rides[call.ride])) =>
          result = Returned(PeakOfToday(rides[call.ride]))
    /\ (/\ call.op = "sortRides" /\ call.sortField = "peak"
        /\ \E i \in 1..Len(rides) : HasMalformedPoint(rides[i])) =>
          /\ ~result.threw
          /\ Len(result.val) = Len(rides)
          /\ \A i \in 1..Len(rides) : \E p \in 1..Len(result.val) : result.val[p] = rides[i]
          /\ \A k \in 1..Len(result.val) - 1 :
                IF call.sortDirection = "asc"
                THEN PeakOfToday(result.val[k]) <= PeakOfToday(result.val[k + 1])
                ELSE PeakOfToday(result.val[k]) >= PeakOfToday(result.val[k + 1])

\* A sort by peak moved a ride with malformed points, whose peak is that of
\* its one well-formed point, between a ride of a lower and one of a higher
\* peak.
C17_Witness ==
    /\ SortReturned
    /\ call.sortField = "peak" /\ call.sortDirection = "asc"
    /\ Len(rides) = 3
    /\ HasMalformedPoint(rides[1]) /\ PeakOfToday(rides[1]) = 20
    /\ PeakOfToday(rides[2]) = 60
    /\ PeakOfToday(rides[3]) = 0
    /\ result.val = <<rides[3], rides[1], rides[2]>>

\* ------------------------------------------------------- claims, the client
\* A call of fetchData ends in failure in this step.
RefreshFails(r) == refreshPc[r] = "answered" /\ refreshPc'[r] = "idle" /\ reply[r].kind # "ok"

C19_ErrorShown ==
    lastRefresh = "failed" =>
        /\ "Error" \in View.elements
        /\ View.current = data.current

\* ------------------------------------------------- claims, the HTTP handler
\* C20. GET /api/wait-times answers 200 with { current, history } exactly
\* when getWaitTimes returns, and 500 with { error } exactly when it fails;
\* the failure never leaves the handler, and no 200 goes without a current
\* snapshot of all the parks.
C20_Inv ==
    \A c \in Calls :
       /\ ~response[c].threw
       /\ response[c].status \in {0, 200, 500}
       /\ response[c].status = 200 =>
             /\ pc[c] = "returned"
             /\ response[c].current = currentSnapshot[c]
             /\ response[c].current.timestamp = timestamp[c]
             /\ Len(response[c].current.parks) = Len(PARKS)
             /\ response[c].history = history[c]
             /\ response[c].error = ""
       /\ response[c].status = 500 =>
             /\ pc[c] = "threw"
             /\ response[c].error # ""
             /\ response[c].current = NoSnapshot
C20_Step ==
    \A c \in Calls :
       (response[c] = NoResponse /\ response'[c] # NoResponse) =>
          response'[c].status = IF pc[c] = "returned" THEN 200 ELSE 500
C20_HandlerAnswers == []C20_Inv /\ [][C20_Step]_vars

\* getWaitTimes has thrown, a fetch having failed, and the handler has
\* answered 500 with the error.
C20_Witness ==
    \E c \in Calls :
       /\ pc[c] = "threw"
       /\ \E i \in ParkIdx : fetches[c][i].status = "failed"
       /\ response[c] = JsonError

\* --------------------------------------------------- claims, cycles that end
\* A cycle leaves Fetching for Merging (the read of the file) or FetchFailed.
C21_Step ==
    \A c \in Calls :
        (pc[c] = "fetching" /\ pc'[c] # "fetching") => pc'[c] \in {"reading", "threw"}

\* C21. Every refresh cycle ends: a call of getWaitTimes that is fetching
\* leaves that state for the merge or for the failure only and is idle again
\* later, given that every fetch and every file operation settles; on the
\* page, loading is false at some time after every call of fetchData.
C21_CyclesEnd ==
    /\ [][C21_Step]_vars
    /\ \A c \in Calls : (pc[c] = "fetching") ~> (pc[c] = "idle")
    /\ \A r \in Refreshes : (refreshPc[r] = "fetching") ~> ~loading

\* A cycle has merged and written the file, and on the page a refresh has
\* failed and left loading false.
C21_Witness ==
    /\ ServerIdle
    /\ store # FileAbsent
    /\ lastRefresh = "failed"
    /\ ~loading
    /\ \A r \in Refreshes : refreshPc[r] = "idle"

\* ------------------------------------------------------- claims, busyness
\* The tiers in their order.
TierRank(label) ==
    CASE label = "Quiet" -> 1
      [] label = "Moderate" -> 2
      [] label = "Busy" -> 3
      [] label = "Very Busy" -> 4
      [] OTHER -> 0

\* C22. busynessLevel gives every average wait exactly one of four tiers:
\* Quiet iff avg < 15, Moderate iff 15 <= avg < 30, Busy iff 30 <= avg < 50,
\* Very Busy iff avg >= 50; the tier of a smaller average is never higher.
C22_Tiers ==
    call.op = "busynessLevel" =>
        LET avg == call.averageWaitTime
            label == result.val.label
        IN /\ ~result.threw
           /\ TierRank(label) # 0
           /\ label = "Quiet" <=> avg < 15
           /\ label = "Moderate" <=> (15 <= avg /\ avg < 30)
           /\ label = "Busy" <=> (30 <= avg /\ avg < 50)
           /\ label = "Very Busy" <=> avg >= 50
           /\ \A less \in 0..avg :
                 TierRank(busynessLevel(less).label) <= TierRank(label)

\* The average is on the threshold between Moderate and Busy.
C22_Witness ==
    /\ call.op = "busynessLevel"
    /\ call.averageWaitTime = 30
    /\ result.val.label = "Busy"

\* ------------------------------------------- claims, overlapping refreshes
\* C23. The page never shows older data after newer data: whatever the
\* order in which overlapping calls of fetchData are answered and their
\* responses arrive, a setData never replaces the snapshot on display by
\* one with an earlier timestamp.
C23_NeverOlder ==
    [][(~data.isNull /\ ~data'.isNull) =>
          GetTime(data'.current.timestamp) >= GetTime(data.current.timestamp)]_vars

\* C24. loading tracks the fetches in flight: loading is true whenever a call
\* of fetchData has started and not finished, so the refresh button, disabled
\* while loading, starts no fetch while another is in flight.
C24_LoadingWhileInFlight ==
    (\E r \in Refreshes : refreshPc[r] # "idle") => loading

\* ------------------------------------------------- claims, the Dashboard
\* C25. The sort written inline in the Dashboard and sortRides are the same
\* operation: for every list of rides, both directions and every sort key
\* but 'favorite' the list the Dashboard shows is the one sortRides returns,
\* and the Dashboard's getHighOfDay equals getHighOfDay of lib/sorting on
\* every ride.
C25_SameSort ==
    /\ sortState.sortField # "favorite" =>
          LET sorted == sortRides(Filtered(rides), sortState.sortField,
                                  sortState.sortDirection)
          IN /\ result.threw = sorted.threw
             /\ ~result.threw => result.val = sorted.val
    /\ \A i \in 1..Len(rides) : DashboardGetHighOfDay(rides[i]) = getHighOfDay(rides[i])

\* ------------------------------------------- claims, the keys of sortRides
\* An OPERATING ride without a standby wait.
NoStandbyWait(ride) ==
    ride.status = "OPERATING" /\ ~(ride.queue.defined /\ ride.queue.STANDBY.defined)
\* An OPERATING ride whose standby wait is 0.
ZeroStandbyWait(ride) ==
    /\ ride.status = "OPERATING"
    /\ ride.queue.defined /\ ride.queue.STANDBY.defined
    /\ ride.queue.STANDBY.waitTime = 0
\* An OPERATING ride whose standby wait is above 0.
PositiveStandbyWait(ride) ==
    /\ ride.status = "OPERATING"
    /\ ride.queue.defined /\ ride.queue.STANDBY.defined
    /\ ride.queue.STANDBY.waitTime > 0
\* Where the i-th ride of the input stands in the output.
PlaceOf(i) == CHOOSE p \in 1..Len(result.val) : result.val[p].id = rides[i].id

\* C26. Sorted by 'waitTime', an OPERATING ride without a standby wait has
\* key 0: in ascending order it stands after every ride that is not
\* OPERATING and before every OPERATING ride with a wait above 0, and among
\* the rides of key 0, those without a wait and those with wait 0, the order
\* of the input is kept.
C26_NoWaitIsZero ==
    (call.op = "sortRides" /\ call.sortField = "waitTime" /\ call.sortDirection = "asc") =>
        /\ ~result.threw
        /\ \A i \in 1..Len(rides), j \in 1..Len(rides) :
              NoStandbyWait(rides[i]) =>
                 /\ rides[j].status # "OPERATING" => PlaceOf(j) < PlaceOf(i)
                 /\ PositiveStandbyWait(rides[j]) => PlaceOf(i) < PlaceOf(j)
                 /\ (NoStandbyWait(rides[j]) \/ ZeroStandbyWait(rides[j])) =>
                        (i < j <=> PlaceOf(i) < PlaceOf(j))

\* A ride without a wait, then one with wait 0, then a closed one: the closed
\* one comes out first, the two others in their order.
C26_Witness ==
    /\ call.op = "sortRides" /\ call.sortField = "waitTime" /\ call.sortDirection = "asc"
    /\ ~result.threw
    /\ Len(rides) = 3
    /\ NoStandbyWait(rides[1]) /\ ZeroStandbyWait(rides[2]) /\ rides[3].status = "CLOSED"
    /\ result.val = <<rides[3], rides[1], rides[2]>>

\* How many times x stands in the sequence.
Count(seq, x) == Cardinality({k \in 1..Len(seq) : seq[k] = x})

\* C27. sortRides returns a permutation of its input and leaves the input
\* untouched: for every key and direction the output holds the rides of the
\* input, each as many times as the input, and the array given has the
\* same order after the call as before.
C27_PermutationInputKept ==
    [][(call.op = "none" /\ call'.op = "sortRides") =>
          /\ ~result'.threw
          /\ rides' = rides
          /\ Len(result'.val) = Len(rides)
          /\ \A i \in 1..Len(rides) :
                Count(result'.val, rides[i]) = Count(rides, rides[i])]_vars

\* A call that had to reorder three rides.
C27_Witness ==
    /\ call.op = "sortRides" /\ ~result.threw
    /\ Len(rides) = 3
    /\ result.val = <<rides[3], rides[2], rides[1]>>
    /\ rides[1] # rides[3]

\* ---------------------------------------------- claims, the sort selection
\* A step of handleSort(field), field being the argument the call record
\* holds after it.
C28_Step ==
    call'.op = "handleSort" =>
        LET field == call'.sortField
        IN IF sortState.sortField = field
           THEN /\ sortState'.sortField = field
                /\ sortState.sortDirection = "asc" => sortState'.sortDirection = "desc"
                /\ sortState.sortDirection = "desc" => sortState'.sortDirection = "asc"
           ELSE /\ sortState'.sortField = field
                /\ sortState'.sortDirection = "desc"

\* C28. The sort selection starts as ('waitTime', 'desc'); handleSort with
\* the selected field keeps the field and flips the direction between 'asc'
\* and 'desc', so that two such clicks give the state back; with another
\* field it selects that field with direction 'desc', whatever the direction
\* was.
C28_SortSelection ==
    /\ sortState = [sortField |-> "waitTime", sortDirection |-> "desc"]
    /\ [](sortState.sortDirection \in {"asc", "desc"})
    /\ [][C28_Step]_vars

\* The column 'name', selected and then clicked again.
C28_Witness ==
    /\ call.op = "handleSort"
    /\ call.sortField = "name"
    /\ sortState = [sortField |-> "name", sortDirection |-> "asc"]

\* ------------------------------------------------- claims, the ticket key
\* The ticket classes from the worst to the best, the unclassified ('')
\* below them all, and the place of a ride's class among them.
TicketClasses == <<"", "A", "B", "C", "D", "E">>
ClassPlace(ride) ==
    CHOOSE k \in 1..Len(TicketClasses) : TicketClasses[k] = getTicketClass(ride.name)

\* C29. Sorted by 'ticket', the key of a ride is 5, 4, 3, 2, 1 for the class
\* E, D, C, B, A and 0 for an unclassified ride: in direction 'desc' a ride
\* of a better class stands before every ride of a worse class, and the
\* unclassified rides stand last.
C29_TicketRanking ==
    (call.op = "sortRides" /\ call.sortField = "ticket") =>
        /\ ~result.threw
        /\ \A i \in 1..Len(rides) : KeyOf(rides[i]) = Num(ClassPlace(rides[i]) - 1)
        /\ call.sortDirection = "desc" =>
              \A p \in 1..Len(result.val), q \in 1..Len(result.val) :
                 ClassPlace(result.val[p]) > ClassPlace(result.val[q]) => p < q

\* An unclassified ride, one of class A and one of class D, given in that
\* order, come out the other way round.
C29_Witness ==
    /\ call.op = "sortRides" /\ call.sortField = "ticket" /\ call.sortDirection = "desc"
    /\ ~result.threw
    /\ Len(rides) = 3
    /\ getTicketClass(rides[1].name) = ""
    /\ getTicketClass(rides[2].name) = "A"
    /\ getTicketClass(rides[3].name) = "D"
    /\ result.val = <<rides[3], rides[2], rides[1]>>

\* --------------------------------------------------- claims, useFavorites
\* The list the stored item denotes.
StoredList == JSONParse(localStorage.val)
SavedWellFormed == localStorage.kind = "text" /\ ~StoredList.threw

\* A step never writes the item before the saved favorites have been read,
\* and the mount's effects read a well-formed saved list into favorites.
C30_Step ==
    /\ ~isLoaded => localStorage' = localStorage
    /\ (effects = "mount" /\ effects' # "mount" /\ SavedWellFormed) =>
          favorites' = StoredList.val

\* C30. useFavorites never writes to the local storage before the saved
\* favorites have been read on mount: a saved, well-formed list is read
\* into favorites and never replaced by the initial empty list, and once
\* loaded the stored list is the list in memory after every toggleFavorite,
\* when its effect has run.
C30_SavedFavoritesKept ==
    /\ [][C30_Step]_vars
    /\ []((isLoaded /\ effects = "none") =>
              (SavedWellFormed /\ StoredList.val = favorites))

\* Ride 2 was saved or added, ride 1 added after it, and the store has both.
C30_Witness ==
    /\ isLoaded /\ effects = "none"
    /\ favorites = <<"2", "1">>
    /\ localStorage = Item(<<"[", "\"2\"", ",", "\"1\"", "]">>)

====
